---- MODULE Spec2Model ----
(***************************************************************************)
(* matplotlib-scalebar: the dimension registry (dimension.py) and the      *)
(* length resolution of ScaleBar (scalebar.py) and DualScaleBar            *)
(* (dualscalebar.py).                                                      *)
(*                                                                         *)
(* Numbers.  The program computes with Python floats.  The model computes  *)
(* with exact rationals in scientific form: the record [n, d, e] stands    *)
(* for (n / d) * 10^e with gcd(n, d) = 1, d > 0 and 1 <= |n| / d < 10      *)
(* (zero is [n |-> 0, d |-> 1, e |-> 0]).  The form is canonical, so two   *)
(* numbers are equal iff their records are equal, and the 48 decades of    *)
(* the SI prefix table fit in machine integers.  Results of the program    *)
(* agree with the model up to the rounding of IEEE doubles.                *)
(***************************************************************************)
EXTENDS Integers, Sequences, FiniteSets, TLC

VARIABLES dimension, bar, dbar, out

vars == <<dimension, bar, dbar, out>>

\* None where a string is expected, and None where a number or an object is
None == "None"

PyNone == [ty |-> "NoneType"]

----------------------------------------------------------------------------
(* Exact arithmetic on [n, d, e] *)

Abs(x) == IF x < 0 THEN -x ELSE x

Sgn(x) == IF x < 0 THEN -1 ELSE IF x = 0 THEN 0 ELSE 1

RECURSIVE GCD(_, _)
GCD(a, b) == IF b = 0 THEN a ELSE GCD(b, a % b)

Reduce(n, d, e) ==
    LET g == GCD(Abs(n), d) IN [n |-> n \div g, d |-> d \div g, e |-> e]

RECURSIVE NormR(_)
NormR(x) ==
    IF Abs(x.n) >= 10 * x.d THEN NormR(Reduce(x.n, 10 * x.d, x.e + 1))
    ELSE IF Abs(x.n) < x.d THEN NormR(Reduce(10 * x.n, x.d, x.e - 1))
    ELSE x

Norm(n, d, e) ==
    IF n = 0 THEN [n |-> 0, d |-> 1, e |-> 0] ELSE NormR(Reduce(n, d, e))

\* the rational n / d
Q(n, d) == Norm(n, d, 0)

\* the float literal n "e" k, as in 1e24
E(n, k) == Norm(n, 1, k)

Zero == Q(0, 1)

One == Q(1, 1)

IsZero(a) == a.n = 0

NMul(a, b) == Norm(a.n * b.n, a.d * b.d, a.e + b.e)

\* a / b for b # 0
NDiv(a, b) == Norm(Sgn(b.n) * a.n * b.d, a.d * Abs(b.n), a.e - b.e)

NNeg(a) == [a EXCEPT !.n = -a.n]

NAbs(a) == [a EXCEPT !.n = Abs(a.n)]

MagLt(a, b) == \/ a.e < b.e
               \/ a.e = b.e /\ Abs(a.n) * b.d < Abs(b.n) * a.d

NLt(a, b) ==
    LET sa == Sgn(a.n)
        sb == Sgn(b.n)
    IN  IF sa # sb THEN sa < sb
        ELSE IF sa = 0 THEN FALSE
        ELSE IF sa = 1 THEN MagLt(a, b)
        ELSE MagLt(b, a)

NLe(a, b) == a = b \/ NLt(a, b)

RECURSIVE Pow10(_)
Pow10(k) == IF k = 0 THEN 1 ELSE 10 * Pow10(k - 1)

\* a - b (used only on operands of comparable magnitude)
NSub(a, b) ==
    IF IsZero(b) THEN a
    ELSE IF IsZero(a) THEN NNeg(b)
    ELSE LET m == IF a.e < b.e THEN a.e ELSE b.e
         IN  Norm(a.n * Pow10(a.e - m) * b.d - b.n * Pow10(b.e - m) * a.d,
                  a.d * b.d, m)

----------------------------------------------------------------------------
(* Python dict: a sequence of <<key, value>> pairs, keys unique, in        *)
(* insertion order.                                                        *)

Keys(dict) == {dict[i][1] : i \in 1..Len(dict)}

Has(dict, k) == k \in Keys(dict)

Get(dict, k) == dict[CHOOSE i \in 1..Len(dict) : dict[i][1] = k][2]

Put(dict, k, v) ==
    IF Has(dict, k)
    THEN [i \in 1..Len(dict) |-> IF dict[i][1] = k THEN <<k, v>> ELSE dict[i]]
    ELSE Append(dict, <<k, v>>)

----------------------------------------------------------------------------
(* Python numbers as objects.  An int and a float of the same magnitude    *)
(* compare equal but print differently, so a value handed to a formatter   *)
(* keeps its type.                                                         *)

PyInt(k) == [ty |-> "int", num |-> Q(k, 1)]

PyFloat(x) == [ty |-> "float", num |-> x]

\* a list or a tuple
PyList(items) == [ty |-> "list", items |-> items]

\* a str where an int or None may stand as well
PyString(s) == [ty |-> "str", str |-> s]

\* bool(v), as "or" tests it
Truthy(v) ==
    /\ v # PyNone
    /\ v.ty \in {"int", "float"} => ~IsZero(v.num)
    /\ v.ty = "str" => v.str # ""

Digit(k) == <<"0", "1", "2", "3", "4", "5", "6", "7", "8", "9">>[k + 1]

\* str() of a non-negative int
RECURSIVE NatStr(_)
NatStr(k) == IF k < 10 THEN Digit(k) ELSE NatStr(k \div 10) \o Digit(k % 10)

\* the first k digits of the fraction r / d
RECURSIVE FracStr(_, _, _)
FracStr(r, d, k) ==
    IF r = 0 \/ k = 0 THEN ""
    ELSE Digit((10 * r) \div d) \o FracStr((10 * r) % d, d, k - 1)

\* "{}".format(v): decimal digits of an int; repr of a float whose decimal
\* expansion terminates (1e-4 <= |v| < 1e16 prints in positional notation,
\* with at most 17 significant digits)
PyStr(v) ==
    LET x == v.num
        N == IF x.e >= 0 THEN Abs(x.n) * Pow10(x.e) ELSE Abs(x.n)
        D == IF x.e >= 0 THEN x.d ELSE x.d * Pow10(-x.e)
        sign == IF x.n < 0 THEN "-" ELSE ""
        frac == FracStr(N % D, D, 17)
    IN  IF v.ty = "int" THEN sign \o NatStr(N \div D)
        ELSE sign \o NatStr(N \div D) \o "." \o (IF frac = "" THEN "0" ELSE frac)

----------------------------------------------------------------------------
(* dimension.py *)

\* the micro sign, written "µ" in the source
MU == "µ"

_PREFIXES_FACTORS ==
    << <<"Y", E(1, 24)>>, <<"Z", E(1, 21)>>, <<"E", E(1, 18)>>,
       <<"P", E(1, 15)>>, <<"T", E(1, 12)>>, <<"G", E(1, 9)>>,
       <<"M", E(1, 6)>>, <<"k", E(1, 3)>>, <<"d", E(1, -1)>>,
       <<"c", E(1, -2)>>, <<"m", E(1, -3)>>, <<MU, E(1, -6)>>,
       <<"u", E(1, -6)>>, <<"n", E(1, -9)>>, <<"p", E(1, -12)>>,
       <<"f", E(1, -15)>>, <<"a", E(1, -18)>>, <<"z", E(1, -21)>>,
       <<"y", E(1, -24)>> >>

_LATEX_MU == "$\\mathrm{\\mu}$"

\* _Dimension.__init__
_Dimension(cls, base_units, latexrepr) ==
    [cls |-> cls,
     _base_units |-> base_units,
     _units |-> << <<base_units, One>> >>,
     _latexrepr |-> << <<base_units,
                         IF latexrepr = None THEN base_units ELSE latexrepr>> >>]

\* add_units without the test of a symbol already defined
add_units_overwrite(dim, units, factor, latexrepr) ==
    IF factor = One THEN [err |-> "ValueError", dim |-> dim]
    ELSE [err |-> None,
          dim |-> [dim EXCEPT
                     !._units = Put(@, units, factor),
                     !._latexrepr = Put(@, units, IF latexrepr = None
                                                  THEN units ELSE latexrepr)]]

\* add_units without the test of the factor
add_units_anyfactor(dim, units, factor, latexrepr) ==
    IF Has(dim._units, units) THEN [err |-> "ValueError", dim |-> dim]
    ELSE [err |-> None,
          dim |-> [dim EXCEPT
                     !._units = Put(@, units, factor),
                     !._latexrepr = Put(@, units, IF latexrepr = None
                                                  THEN units ELSE latexrepr)]]

\* add_units writing the LaTeX table only when a representation is given
add_units_nolatex(dim, units, factor, latexrepr) ==
    IF Has(dim._units, units) THEN [err |-> "ValueError", dim |-> dim]
    ELSE IF factor = One THEN [err |-> "ValueError", dim |-> dim]
    ELSE [err |-> None,
          dim |-> [dim EXCEPT
                     !._units = Put(@, units, factor),
                     !._latexrepr = IF latexrepr = None THEN @
                                    ELSE Put(@, units, latexrepr)]]

\* _Dimension.add_units: the error raised (None if none) and the registry
\* after the call
add_units(dim, units, factor, latexrepr) ==
    IF Has(dim._units, units) THEN [err |-> "ValueError", dim |-> dim]
    ELSE IF factor = One THEN [err |-> "ValueError", dim |-> dim]
    ELSE [err |-> None,
          dim |-> [dim EXCEPT
                     !._units = Put(@, units, factor),
                     !._latexrepr = Put(@, units, IF latexrepr = None
                                                  THEN units ELSE latexrepr)]]

is_valid_units(dim, units) ==
    Has(dim._units, units) /\ Has(dim._latexrepr, units)

\* sorted(items, key=itemgetter(1)): stable, ascending by the second item
RECURSIVE SortedInsert(_, _)
SortedInsert(s, x) ==
    IF s = <<>> THEN <<x>>
    ELSE IF NLt(x[2], s[Len(s)][2])
         THEN Append(SortedInsert(SubSeq(s, 1, Len(s) - 1), x), s[Len(s)])
         ELSE Append(s, x)

RECURSIVE sorted(_)
sorted(items) ==
    IF items = <<>> THEN <<>>
    ELSE SortedInsert(sorted(SubSeq(items, 1, Len(items) - 1)), items[Len(items)])

\* bisect.bisect_right(a, x) on a[lo:hi], indices from 0
RECURSIVE bisect_right_loop(_, _, _, _)
bisect_right_loop(a, x, lo, hi) ==
    IF lo < hi
    THEN LET mid == (lo + hi) \div 2
         IN  IF NLt(x, a[mid + 1]) THEN bisect_right_loop(a, x, lo, mid)
             ELSE bisect_right_loop(a, x, mid + 1, hi)
    ELSE lo

bisect_right(a, x) == bisect_right_loop(a, x, 0, Len(a))

\* bisect.bisect_left(a, x) on a[lo:hi], indices from 0
RECURSIVE bisect_left_loop(_, _, _, _)
bisect_left_loop(a, x, lo, hi) ==
    IF lo < hi
    THEN LET mid == (lo + hi) \div 2
         IN  IF NLt(a[mid + 1], x) THEN bisect_left_loop(a, x, mid + 1, hi)
             ELSE bisect_left_loop(a, x, lo, mid)
    ELSE lo

bisect_left(a, x) == bisect_left_loop(a, x, 0, Len(a))

\* calculate_preferred searching with bisect_left
calculate_preferred_left(dim, value, units) ==
    IF ~Has(dim._units, units) THEN [err |-> "ValueError"]
    ELSE LET base_value == NMul(value, Get(dim._units, units))
             units_factor == sorted(dim._units)
             factors == [i \in 1..Len(units_factor) |-> units_factor[i][2]]
             index == bisect_left(factors, base_value)
         IN  IF index # 0
             THEN [err |-> None,
                   value |-> NDiv(base_value, units_factor[index][2]),
                   units |-> units_factor[index][1]]
             ELSE [err |-> None, value |-> value, units |-> units]

\* calculate_preferred without the test of index: units_factor[-1] is the
\* last item
calculate_preferred_wrap(dim, value, units) ==
    IF ~Has(dim._units, units) THEN [err |-> "ValueError"]
    ELSE LET base_value == NMul(value, Get(dim._units, units))
             units_factor == sorted(dim._units)
             factors == [i \in 1..Len(units_factor) |-> units_factor[i][2]]
             index == bisect_right(factors, base_value)
             at == IF index # 0 THEN index ELSE Len(units_factor)
         IN  [err |-> None,
              value |-> NDiv(base_value, units_factor[at][2]),
              units |-> units_factor[at][1]]

\* calculate_preferred falling back to the base-unit value
calculate_preferred_base(dim, value, units) ==
    IF ~Has(dim._units, units) THEN [err |-> "ValueError"]
    ELSE LET base_value == NMul(value, Get(dim._units, units))
             units_factor == sorted(dim._units)
             factors == [i \in 1..Len(units_factor) |-> units_factor[i][2]]
             index == bisect_right(factors, base_value)
         IN  IF index # 0
             THEN [err |-> None,
                   value |-> NDiv(base_value, units_factor[index][2]),
                   units |-> units_factor[index][1]]
             ELSE [err |-> None, value |-> base_value, units |-> units]

\* _Dimension.calculate_preferred
calculate_preferred(dim, value, units) ==
    IF ~Has(dim._units, units) THEN [err |-> "ValueError"]
    ELSE LET base_value == NMul(value, Get(dim._units, units))
             units_factor == sorted(dim._units)
             factors == [i \in 1..Len(units_factor) |-> units_factor[i][2]]
             index == bisect_right(factors, base_value)
         IN  IF index # 0
             THEN [err |-> None,
                   value |-> NDiv(base_value, units_factor[index][2]),
                   units |-> units_factor[index][1]]
             ELSE [err |-> None, value |-> value, units |-> units]

\* convert multiplying by the factor of newunits
convert_times(dim, value, units, newunits) ==
    IF ~Has(dim._units, units) \/ ~Has(dim._units, newunits)
    THEN [err |-> "KeyError"]
    ELSE [err |-> None,
          value |-> NMul(NMul(value, Get(dim._units, units)),
                         Get(dim._units, newunits))]

\* convert with the two factors exchanged
convert_swapped(dim, value, units, newunits) ==
    IF ~Has(dim._units, units) \/ ~Has(dim._units, newunits)
    THEN [err |-> "KeyError"]
    ELSE [err |-> None,
          value |-> NDiv(NMul(value, Get(dim._units, newunits)),
                         Get(dim._units, units))]

\* _Dimension.convert
convert(dim, value, units, newunits) ==
    IF ~Has(dim._units, units) \/ ~Has(dim._units, newunits)
    THEN [err |-> "KeyError"]
    ELSE [err |-> None,
          value |-> NDiv(NMul(value, Get(dim._units, units)),
                         Get(dim._units, newunits))]

\* _Dimension.to_latex
to_latex(dim, units) ==
    IF ~Has(dim._latexrepr, units) THEN [err |-> "ValueError"]
    ELSE [err |-> None, latex |-> Get(dim._latexrepr, units)]

\* _Dimension.create_label, overridden by AngleDimension.create_label
create_label(dim, value, latexrepr) ==
    IF dim.cls = "AngleDimension" THEN PyStr(value) \o latexrepr
    ELSE PyStr(value) \o " " \o latexrepr

\* add_units in a constructor, where it does not fail
Added(dim, units, factor, latexrepr) == add_units(dim, units, factor, latexrepr).dim

RECURSIVE SILengthLoop(_, _)
SILengthLoop(dim, k) ==
    IF k > Len(_PREFIXES_FACTORS) THEN dim
    ELSE LET prefix == _PREFIXES_FACTORS[k][1]
             factor == _PREFIXES_FACTORS[k][2]
             latexrepr == IF prefix = MU \/ prefix = "u"
                          THEN _LATEX_MU \o "m" ELSE None
         IN  SILengthLoop(Added(dim, prefix \o "m", factor, latexrepr), k + 1)

SILengthDimension == SILengthLoop(_Dimension("SILengthDimension", "m", None), 1)

RECURSIVE SILengthReciprocalLoop(_, _)
SILengthReciprocalLoop(dim, k) ==
    IF k > Len(_PREFIXES_FACTORS) THEN dim
    ELSE LET prefix == _PREFIXES_FACTORS[k][1]
             factor == _PREFIXES_FACTORS[k][2]
             latexrepr == IF prefix = MU \/ prefix = "u"
                          THEN _LATEX_MU \o "m$^{-1}$"
                          ELSE prefix \o "m$^{-1}$"
         IN  SILengthReciprocalLoop(
                 Added(dim, "1/" \o prefix \o "m", NDiv(One, factor), latexrepr),
                 k + 1)

SILengthReciprocalDimension ==
    SILengthReciprocalLoop(
        _Dimension("SILengthReciprocalDimension", "1/m", "m$^{-1}$"), 1)

ImperialLengthDimension ==
    LET d0 == _Dimension("ImperialLengthDimension", "ft", None)
        d1 == Added(d0, "th", Q(1, 12000), None)
        d2 == Added(d1, "in", Q(1, 12), None)
        d3 == Added(d2, "yd", Q(3, 1), None)
        d4 == Added(d3, "ch", Q(66, 1), None)
        d5 == Added(d4, "fur", Q(660, 1), None)
        d6 == Added(d5, "mi", Q(5280, 1), None)
    IN  Added(d6, "lea", Q(15840, 1), None)

RECURSIVE PixelLengthLoop(_, _)
PixelLengthLoop(dim, k) ==
    IF k > Len(_PREFIXES_FACTORS) THEN dim
    ELSE LET prefix == _PREFIXES_FACTORS[k][1]
             factor == _PREFIXES_FACTORS[k][2]
         IN  IF NLt(factor, One) THEN PixelLengthLoop(dim, k + 1)
             ELSE PixelLengthLoop(Added(dim, prefix \o "px", factor, None), k + 1)

PixelLengthDimension == PixelLengthLoop(_Dimension("PixelLengthDimension", "px", None), 1)

AngleDimension ==
    LET d0 == _Dimension("AngleDimension", "deg", "$^\\circ$")
        d1 == Added(d0, "'", Q(1, 60), "$^\\prime$")
    IN  Added(d1, "''", Q(1, 3600), "$^{\\prime\\prime}$")

----------------------------------------------------------------------------
(* scalebar.py *)

_PREFERRED_VALUES ==
    <<PyInt(1), PyInt(2), PyInt(5), PyInt(10), PyInt(15), PyInt(20),
      PyInt(25), PyInt(50), PyInt(75), PyInt(100), PyInt(125), PyInt(150),
      PyInt(200), PyInt(500), PyInt(750)>>

\* the ladder as the numbers bisect compares
PreferredNums == [i \in 1..Len(_PREFERRED_VALUES) |-> _PREFERRED_VALUES[i].num]

\* defaultParams["scalebar.length_fraction"]
RcLengthFraction == Q(2, 10)

\* defaultParams["scalebar.width_fraction"]
RcWidthFraction == Q(1, 100)

\* ScaleBar.set_length_fraction / set_width_fraction: does the setter raise?
FractionRejected(fraction) ==
    fraction # PyNone /\ (NLe(fraction.num, Zero) \/ NLt(One, fraction.num))

\* ScaleBar.set_box_alpha: does the setter raise?
AlphaRejected(alpha) ==
    alpha # PyNone /\ (NLt(alpha.num, Zero) \/ NLt(One, alpha.num))

\* float(fraction) of a setter, None staying None
FloatOrNone(v) == IF v = PyNone THEN PyNone ELSE PyFloat(v.num)

_LOCATIONS ==
    << <<"upper right", 1>>, <<"upper left", 2>>, <<"lower left", 3>>,
       <<"lower right", 4>>, <<"right", 5>>, <<"center left", 6>>,
       <<"center right", 7>>, <<"lower center", 8>>, <<"upper center", 9>>,
       <<"center", 10>> >>

\* ScaleBar._convert_location: the error raised, or the location code (what
\* is not a str is handed back as it is)
_convert_location(loc) ==
    IF loc.ty = "str"
    THEN IF ~Has(_LOCATIONS, loc.str) THEN [err |-> "ValueError"]
         ELSE [err |-> None, loc |-> PyInt(Get(_LOCATIONS, loc.str))]
    ELSE [err |-> None, loc |-> loc]

\* ScaleBar.set_length_fraction: the error raised and the bar after the call
set_length_fraction(self, fraction) ==
    IF FractionRejected(fraction) THEN [err |-> "ValueError", self |-> self]
    ELSE [err |-> None,
          self |-> [self EXCEPT !._length_fraction = FloatOrNone(fraction)]]

get_length_fraction(self) == self._length_fraction

\* set_width_fraction assigning before the test of the range
set_width_fraction_early(self, fraction) ==
    [err |-> IF FractionRejected(fraction) THEN "ValueError" ELSE None,
     self |-> [self EXCEPT !._width_fraction = FloatOrNone(fraction)]]

\* ScaleBar.set_width_fraction
set_width_fraction(self, fraction) ==
    IF FractionRejected(fraction) THEN [err |-> "ValueError", self |-> self]
    ELSE [err |-> None,
          self |-> [self EXCEPT !._width_fraction = FloatOrNone(fraction)]]

get_width_fraction(self) == self._width_fraction

\* ScaleBar.set_height_fraction, deprecated: self.width_fraction = fraction
set_height_fraction(self, fraction) == set_width_fraction(self, fraction)

\* ScaleBar.get_height_fraction, deprecated
get_height_fraction(self) == get_width_fraction(self)

\* ScaleBar.set_box_alpha
set_box_alpha(self, alpha) ==
    IF AlphaRejected(alpha) THEN [err |-> "ValueError", self |-> self]
    ELSE [err |-> None, self |-> [self EXCEPT !._box_alpha = FloatOrNone(alpha)]]

get_box_alpha(self) == self._box_alpha

\* class TimeDimension of doc/example_dimension.py, a family a user defines
RECURSIVE TimeLoop(_, _)
TimeLoop(dim, k) ==
    IF k > Len(_PREFIXES_FACTORS) THEN dim
    ELSE LET prefix == _PREFIXES_FACTORS[k][1]
             factor == _PREFIXES_FACTORS[k][2]
             latexrepr == IF prefix = MU \/ prefix = "u"
                          THEN _LATEX_MU \o "s" ELSE None
         IN  TimeLoop(Added(dim, prefix \o "s", factor, latexrepr), k + 1)

TimeDimension == TimeLoop(_Dimension("TimeDimension", "s", None), 1)

\* identifier -> the registry the class listed creates when called
_DIMENSION_LOOKUP ==
    << <<"si-length", SILengthDimension>>,
       <<"si-length-reciprocal", SILengthReciprocalDimension>>,
       <<"imperial-length", ImperialLengthDimension>>,
       <<"pixel-length", PixelLengthDimension>>,
       <<"angle", AngleDimension>> >>

\* isinstance(v, _Dimension): the registries are the records with a class
IsDimension(v) == "cls" \in DOMAIN v

\* "dimension in _DIMENSION_LOOKUP", the argument being hashable
InLookup(v) ==
    /\ ~IsDimension(v)
    /\ v.ty = "str"
    /\ Has(_DIMENSION_LOOKUP, v.str)

\* set_dimension storing the argument before it is tested
set_dimension_early(_dimension, arg) ==
    LET created == IF InLookup(arg)
                   THEN Get(_DIMENSION_LOOKUP, arg.str) ELSE arg
    IN  [err |-> IF IsDimension(created) THEN None ELSE "ValueError",
         _dimension |-> created]

\* ScaleBar.set_dimension with the argument arg: the error raised and the
\* bar's _dimension after the call, _dimension being the one before
set_dimension(_dimension, arg) ==
    LET created == IF InLookup(arg)
                   THEN Get(_DIMENSION_LOOKUP, arg.str) ELSE arg
    IN  IF ~IsDimension(created)
        THEN [err |-> "ValueError", _dimension |-> _dimension]
        ELSE [err |-> None, _dimension |-> created]

\* ScaleBar.set_units, dim being the bar's dimension
set_units(self, dim, units) ==
    IF ~is_valid_units(dim, units) THEN [err |-> "ValueError", self |-> self]
    ELSE [err |-> None, self |-> [self EXCEPT !._units = units]]

get_units(self) == self._units

_VALID_ROTATIONS == {"horizontal", "vertical"}

\* ScaleBar.set_rotation: does the setter raise?
RotationRejected(rotation) == rotation # None /\ rotation \notin _VALID_ROTATIONS

\* ScaleBar.set_rotation
set_rotation(self, rotation) ==
    IF RotationRejected(rotation) THEN [err |-> "ValueError", self |-> self]
    ELSE [err |-> None, self |-> [self EXCEPT !._rotation = rotation]]

get_rotation(self) == self._rotation

\* ScaleBar.set_location
set_location(self, loc) ==
    LET conv == _convert_location(loc)
    IN  IF conv.err # None THEN [err |-> conv.err, self |-> self]
        ELSE [err |-> None, self |-> [self EXCEPT !._location = conv.loc]]

get_location(self) == self._location

\* the bar __init__ has assigned when no setter raised
ScaleBarFields(kw, location) ==
    [_dx |-> kw.dx,
     _units |-> kw.units,
     _length_fraction |-> FloatOrNone(kw.length_fraction),
     _width_fraction |-> FloatOrNone(kw.width_fraction),
     _location |-> location,
     _box_alpha |-> FloatOrNone(kw.box_alpha),
     _fixed_value |-> kw.fixed_value,
     _fixed_units |-> kw.fixed_units,
     _rotation |-> kw.rotation]

\* ScaleBar.__init__ from "self.dx = dx" on, where conv is what
\* _convert_location(location or loc) returns or raises
ScaleBar_init_setters(dim, kw, conv) ==
    IF ~is_valid_units(dim, kw.units) THEN [err |-> "ValueError"]
    ELSE IF FractionRejected(kw.length_fraction) THEN [err |-> "ValueError"]
    ELSE IF FractionRejected(kw.width_fraction) THEN [err |-> "ValueError"]
    ELSE IF conv.err # None THEN [err |-> conv.err]
    ELSE IF AlphaRejected(kw.box_alpha) THEN [err |-> "ValueError"]
    ELSE IF RotationRejected(kw.rotation) THEN [err |-> "ValueError"]
    ELSE [err |-> None, bar |-> ScaleBarFields(kw, conv.loc)]

\* ScaleBar.__init__ without the comparison of loc and location
ScaleBar_init_nocompare(dim, kw) ==
    ScaleBar_init_setters(
        dim, kw,
        _convert_location(IF Truthy(kw.location) THEN kw.location ELSE kw.loc))

\* ScaleBar.__init__ with its keyword arguments kw (those of the deprecated
\* names and of the colours, paddings and fonts left out): the error raised
\* (None if none) and the new bar.  The dimension is the registry object the
\* bar refers to.
ScaleBar_init(dim, kw) ==
    IF kw.loc # PyNone /\ _convert_location(kw.loc).err # None
    THEN [err |-> "ValueError"]
    ELSE IF kw.loc # PyNone /\ _convert_location(kw.location).err # None
    THEN [err |-> "ValueError"]
    ELSE IF kw.loc # PyNone
            /\ _convert_location(kw.loc).loc # _convert_location(kw.location).loc
    THEN [err |-> "ValueError"]
    ELSE ScaleBar_init_setters(
             dim, kw,
             _convert_location(IF Truthy(kw.location) THEN kw.location ELSE kw.loc))

\* ScaleBar(dx, units, dimension, length_fraction=..., fixed_value=...,
\* fixed_units=..., rotation=...)
ScaleBar(dim, dx, units, length_fraction, fixed_value, fixed_units, rotation) ==
    ScaleBar_init(dim, [dx |-> dx, units |-> units,
                        length_fraction |-> length_fraction,
                        width_fraction |-> PyNone,
                        location |-> PyNone, loc |-> PyNone,
                        box_alpha |-> PyNone,
                        fixed_value |-> fixed_value,
                        fixed_units |-> fixed_units,
                        rotation |-> rotation])

\* _calculate_best_length searching the ladder with bisect_right
best_length_right(dx, value, pref) ==
    IF pref.err # None THEN [err |-> pref.err]
    ELSE IF IsZero(pref.value) THEN [err |-> "ZeroDivisionError"]
    ELSE LET factor == NDiv(value, pref.value)
             i0 == bisect_right(PreferredNums, pref.value)
             index == IF i0 > 0 THEN i0 - 1 ELSE i0
             newvalue == _PREFERRED_VALUES[index + 1]
         IN  IF IsZero(dx) THEN [err |-> "ZeroDivisionError"]
             ELSE [err |-> None,
                   length_px |-> NDiv(NMul(newvalue.num, factor), dx),
                   value |-> newvalue,
                   units |-> pref.units]

\* _calculate_best_length without the test of index: _PREFERRED_VALUES[-1]
\* is the last entry
best_length_wrap(dx, value, pref) ==
    IF pref.err # None THEN [err |-> pref.err]
    ELSE IF IsZero(pref.value) THEN [err |-> "ZeroDivisionError"]
    ELSE LET factor == NDiv(value, pref.value)
             i0 == bisect_left(PreferredNums, pref.value)
             index == IF i0 > 0 THEN i0 - 1 ELSE Len(_PREFERRED_VALUES) - 1
             newvalue == _PREFERRED_VALUES[index + 1]
         IN  IF IsZero(dx) THEN [err |-> "ZeroDivisionError"]
             ELSE [err |-> None,
                   length_px |-> NDiv(NMul(newvalue.num, factor), dx),
                   value |-> newvalue,
                   units |-> pref.units]

\* _calculate_best_length returning the candidate value, not the ladder entry
best_length_unsnapped(dx, value, pref) ==
    IF pref.err # None THEN [err |-> pref.err]
    ELSE IF IsZero(pref.value) THEN [err |-> "ZeroDivisionError"]
    ELSE LET factor == NDiv(value, pref.value)
             i0 == bisect_left(PreferredNums, pref.value)
             index == IF i0 > 0 THEN i0 - 1 ELSE i0
             newvalue == _PREFERRED_VALUES[index + 1]
         IN  IF IsZero(dx) THEN [err |-> "ZeroDivisionError"]
             ELSE [err |-> None,
                   length_px |-> NDiv(NMul(newvalue.num, factor), dx),
                   value |-> PyFloat(pref.value),
                   units |-> pref.units]

\* _calculate_best_length forgetting the unit factor in the pixel length
best_length_nofactor(dx, value, pref) ==
    IF pref.err # None THEN [err |-> pref.err]
    ELSE IF IsZero(pref.value) THEN [err |-> "ZeroDivisionError"]
    ELSE LET factor == NDiv(value, pref.value)
             i0 == bisect_left(PreferredNums, pref.value)
             index == IF i0 > 0 THEN i0 - 1 ELSE i0
             newvalue == _PREFERRED_VALUES[index + 1]
         IN  IF IsZero(dx) THEN [err |-> "ZeroDivisionError"]
             ELSE [err |-> None,
                   length_px |-> NDiv(newvalue.num, dx),
                   value |-> newvalue,
                   units |-> pref.units]

\* ScaleBar._calculate_best_length from "factor = value / newvalue" on, where
\* pref is what calculate_preferred returned or raised
best_length(dx, value, pref) ==
    IF pref.err # None THEN [err |-> pref.err]
    ELSE IF IsZero(pref.value) THEN [err |-> "ZeroDivisionError"]
    ELSE LET factor == NDiv(value, pref.value)
             i0 == bisect_left(PreferredNums, pref.value)
             index == IF i0 > 0 THEN i0 - 1 ELSE i0
             newvalue == _PREFERRED_VALUES[index + 1]
         IN  IF IsZero(dx) THEN [err |-> "ZeroDivisionError"]
             ELSE [err |-> None,
                   length_px |-> NDiv(NMul(newvalue.num, factor), dx),
                   value |-> newvalue,
                   units |-> pref.units]

\* ScaleBar._calculate_best_length
_calculate_best_length(self, dim, length_px) ==
    best_length(self._dx, NMul(length_px, self._dx),
                calculate_preferred(dim, NMul(length_px, self._dx), self._units))

\* _calculate_exact_length converting from the source units to the fixed units
_calculate_exact_length_backwards(self, dim, value, units) ==
    LET conv == convert(dim, value.num, self._units, units)
    IN  IF conv.err # None THEN [err |-> conv.err]
        ELSE IF IsZero(self._dx) THEN [err |-> "ZeroDivisionError"]
        ELSE [err |-> None, length_px |-> NDiv(conv.value, self._dx)]

\* ScaleBar._calculate_exact_length
_calculate_exact_length(self, dim, value, units) ==
    LET conv == convert(dim, value.num, units, self._units)
    IN  IF conv.err # None THEN [err |-> conv.err]
        ELSE IF IsZero(self._dx) THEN [err |-> "ZeroDivisionError"]
        ELSE [err |-> None, length_px |-> NDiv(conv.value, self._dx)]

\* ScaleBar.draw from "scale_text = ..." on, where res is the length, value
\* and units of the mode, or the error raised
draw_scale(dim, res, width_px, rotation) ==
    IF res.err # None THEN [err |-> res.err]
    ELSE LET latex == to_latex(dim, res.units)
         IN  IF latex.err # None THEN [err |-> latex.err]
             ELSE [err |-> None,
                   drawn |-> TRUE,
                   length_px |-> res.length_px,
                   value |-> res.value,
                   units |-> res.units,
                   scale_text |-> create_label(dim, res.value, latex.latex),
                   width_px |-> width_px,
                   rotation |-> rotation]

\* Mode 2 of ScaleBar.draw, where exact is what _calculate_exact_length
\* returned or raised
draw_fixed(exact, fixed_value, fixed_units) ==
    IF exact.err # None THEN exact
    ELSE [err |-> None, length_px |-> exact.length_px,
          value |-> fixed_value, units |-> fixed_units]

\* the units of the fixed value taken from the bar's units always
fixed_units_ignored(self) == self._units

\* "fixed_units = self.fixed_units or self.units" of ScaleBar.draw
fixed_units_or_units(self) ==
    IF self._fixed_units = None THEN self._units ELSE self._fixed_units

\* ScaleBar.draw without the test of dx
draw_nozero(self, dim, xlim0, ylim0) ==
    LET length_fraction == IF self._length_fraction = PyNone
                           THEN RcLengthFraction ELSE self._length_fraction.num
        width_fraction == IF self._width_fraction = PyNone
                          THEN RcWidthFraction ELSE self._width_fraction.num
        fixed_value == self._fixed_value
        fixed_units == fixed_units_or_units(self)
        rotation == IF self._rotation = None THEN "horizontal" ELSE self._rotation
        xlim == IF rotation = "vertical" THEN ylim0 ELSE xlim0
        ylim == IF rotation = "vertical" THEN xlim0 ELSE ylim0
    IN  draw_scale(
            dim,
            IF self._fixed_value = PyNone
            THEN _calculate_best_length(
                     self, dim, NMul(NAbs(NSub(xlim[2], xlim[1])), length_fraction))
            ELSE draw_fixed(_calculate_exact_length(self, dim, fixed_value, fixed_units),
                            fixed_value, fixed_units),
            NMul(NAbs(NSub(ylim[2], ylim[1])), width_fraction),
            rotation)

\* ScaleBar.draw, up to the rectangle and the text handed to the canvas:
\* drawn = FALSE is the early return
draw(self, dim, xlim0, ylim0) ==
    IF IsZero(self._dx) THEN [err |-> None, drawn |-> FALSE]
    ELSE
    LET length_fraction == IF self._length_fraction = PyNone
                           THEN RcLengthFraction ELSE self._length_fraction.num
        width_fraction == IF self._width_fraction = PyNone
                          THEN RcWidthFraction ELSE self._width_fraction.num
        fixed_value == self._fixed_value
        fixed_units == fixed_units_or_units(self)
        rotation == IF self._rotation = None THEN "horizontal" ELSE self._rotation
        xlim == IF rotation = "vertical" THEN ylim0 ELSE xlim0
        ylim == IF rotation = "vertical" THEN xlim0 ELSE ylim0
    IN  draw_scale(
            dim,
            IF self._fixed_value = PyNone
            THEN _calculate_best_length(
                     self, dim, NMul(NAbs(NSub(xlim[2], xlim[1])), length_fraction))
            ELSE draw_fixed(_calculate_exact_length(self, dim, fixed_value, fixed_units),
                            fixed_value, fixed_units),
            NMul(NAbs(NSub(ylim[2], ylim[1])), width_fraction),
            rotation)

----------------------------------------------------------------------------
(* The resolutions read by read.  A caller's resolution is the method op  *)
(* of its bar self (PyNone for a method of the registry) with args; pc    *)
(* is the read of the registry it is to do next, loc its local variables. *)

Resolving(op, self, args) ==
    [op |-> op, self |-> self, args |-> args, pc |-> "first", loc |-> PyNone,
     ret |-> PyNone]

\* the method returns or raises ret
Resolved(c, ret) == [c EXCEPT !.pc = "done", !.ret = ret]

\* the value and the units the resolution looks up first
FirstValue(c) ==
    CASE c.op = "_calculate_best_length" -> NMul(c.args.length_px, c.self._dx)
      [] c.op = "_calculate_exact_length" -> c.args.value.num
      [] OTHER -> c.args.value

FirstUnits(c) ==
    IF c.op = "_calculate_best_length" THEN c.self._units ELSE c.args.units

\* the units convert divides by
SecondUnits(c) ==
    IF c.op = "_calculate_exact_length" THEN c.self._units ELSE c.args.newunits

\* calculate_preferred from "units_factor = sorted(...)" on, units_factor
\* being the sorted items read from the registry
preferred_from(units_factor, base_value, value, units) ==
    LET factors == [i \in 1..Len(units_factor) |-> units_factor[i][2]]
        index == bisect_right(factors, base_value)
    IN  IF index # 0
        THEN [err |-> None,
              value |-> NDiv(base_value, units_factor[index][2]),
              units |-> units_factor[index][1]]
        ELSE [err |-> None, value |-> value, units |-> units]

\* convert from the division on, base_value being value * self._units[units]
convert_from(dim, base_value, newunits) ==
    IF ~Has(dim._units, newunits) THEN [err |-> "KeyError"]
    ELSE [err |-> None, value |-> NDiv(base_value, Get(dim._units, newunits))]

\* _calculate_exact_length from "return newvalue / self.dx" on
exact_length_from(dx, conv) ==
    IF conv.err # None THEN [err |-> conv.err]
    ELSE IF IsZero(dx) THEN [err |-> "ZeroDivisionError"]
    ELSE [err |-> None, length_px |-> NDiv(conv.value, dx)]

\* up to the first read of the registry and what follows from it
resolve_first(dim, c) ==
    CASE c.op \in {"calculate_preferred", "_calculate_best_length"} ->
           IF ~Has(dim._units, FirstUnits(c))
           THEN Resolved(c, [err |-> "ValueError"])
           ELSE [c EXCEPT !.pc = "second",
                          !.loc = [base_value |->
                                      NMul(FirstValue(c),
                                           Get(dim._units, FirstUnits(c)))]]
      [] c.op \in {"convert", "_calculate_exact_length"} ->
           IF ~Has(dim._units, FirstUnits(c))
           THEN Resolved(c, [err |-> "KeyError"])
           ELSE [c EXCEPT !.pc = "second",
                          !.loc = [base_value |->
                                      NMul(FirstValue(c),
                                           Get(dim._units, FirstUnits(c)))]]
      [] c.op = "to_latex" ->
           IF ~Has(dim._latexrepr, c.args.units)
           THEN Resolved(c, [err |-> "ValueError"])
           ELSE [c EXCEPT !.pc = "second"]
      [] c.op = "is_valid_units" ->
           IF ~Has(dim._units, c.args.units)
           THEN Resolved(c, [err |-> None, value |-> FALSE])
           ELSE [c EXCEPT !.pc = "second"]

\* the second read of the registry and the rest of the method
resolve_second(dim, c) ==
    CASE c.op = "calculate_preferred" ->
           Resolved(c, preferred_from(sorted(dim._units), c.loc.base_value,
                                      FirstValue(c), FirstUnits(c)))
      [] c.op = "_calculate_best_length" ->
           Resolved(c, best_length(
                           c.self._dx, FirstValue(c),
                           preferred_from(sorted(dim._units), c.loc.base_value,
                                          FirstValue(c), FirstUnits(c))))
      [] c.op = "convert" ->
           Resolved(c, convert_from(dim, c.loc.base_value, SecondUnits(c)))
      [] c.op = "_calculate_exact_length" ->
           Resolved(c, exact_length_from(
                           c.self._dx,
                           convert_from(dim, c.loc.base_value, SecondUnits(c))))
      [] c.op = "to_latex" ->
           Resolved(c, [err |-> None, latex |-> Get(dim._latexrepr, c.args.units)])
      [] c.op = "is_valid_units" ->
           Resolved(c, [err |-> None, value |-> Has(dim._latexrepr, c.args.units)])

\* a step that leaves the factor table sorted in the registry
resolve_step_sorting(dim, c) ==
    [call |-> IF c.pc = "first" THEN resolve_first(dim, c)
              ELSE resolve_second(dim, c),
     dim |-> IF c.pc = "second"
                   /\ c.op \in {"calculate_preferred", "_calculate_best_length"}
             THEN [dim EXCEPT !._units = sorted(dim._units)] ELSE dim]

\* one step of a resolution: the resolution and the registry after it (no
\* method assigns to self._units or self._latexrepr)
resolve_step(dim, c) ==
    [call |-> IF c.pc = "first" THEN resolve_first(dim, c)
              ELSE resolve_second(dim, c),
     dim |-> dim]

----------------------------------------------------------------------------
(* dualscalebar.py *)

\* DualScaleBar.__init__
DualScaleBar(dims, dx, dy, units) ==
    IF \E i \in 1..2 : ~is_valid_units(dims[i], units[i])
    THEN [err |-> "ValueError"]
    ELSE [err |-> None,
          bar |-> [_dx |-> dx, _dy |-> dy, _dimensions |-> dims,
                   _units |-> units,
                   _length_fraction |-> PyNone,
                   _fixed_value |-> PyNone,
                   _fixed_units |-> PyNone]]

\* one turn of the loop of DualScaleBar._calculate_best_length from
\* "factor = value / newvalue" on, where pref is what calculate_preferred
\* returned or raised
DualAxisFrom(d, value, pref) ==
    IF pref.err # None THEN [err |-> pref.err]
    ELSE IF IsZero(pref.value) THEN [err |-> "ZeroDivisionError"]
    ELSE LET newvalue == pref.value
             factor == NDiv(value, newvalue)
             i0 == bisect_left(PreferredNums, newvalue)
             index == IF i0 > 0 THEN i0 - 1 ELSE i0
         IN  IF IsZero(d) THEN [err |-> "ZeroDivisionError"]
             ELSE [err |-> None,
                   length_px |-> NDiv(NMul(newvalue, factor), d),
                   value |-> _PREFERRED_VALUES[index + 1],
                   units |-> pref.units]

\* one turn of the loop of DualScaleBar._calculate_best_length
DualAxis(self, length_pxs, i) ==
    DualAxisFrom(IF i = 1 THEN self._dx ELSE self._dy,
                 NMul(length_pxs[i], IF i = 1 THEN self._dx ELSE self._dy),
                 calculate_preferred(
                     self._dimensions[i],
                     NMul(length_pxs[i], IF i = 1 THEN self._dx ELSE self._dy),
                     self._units[i]))

\* the two turns together: the first error raised, or the three lists
DualBoth(a1, a2) ==
    IF a1.err # None THEN [err |-> a1.err]
    ELSE IF a2.err # None THEN [err |-> a2.err]
    ELSE [err |-> None,
          length_pxs |-> <<a1.length_px, a2.length_px>>,
          values |-> <<a1.value, a2.value>>,
          units |-> <<a1.units, a2.units>>]

\* DualScaleBar._calculate_best_length
Dual_calculate_best_length(self, length_pxs) ==
    DualBoth(DualAxis(self, length_pxs, 1), DualAxis(self, length_pxs, 2))

\* DualScaleBar._calculate_exact_length
Dual_calculate_exact_length(d, dim, current_units, value, units) ==
    LET conv == convert(dim, value.num, units, current_units)
    IN  IF conv.err # None THEN [err |-> conv.err]
        ELSE IF IsZero(d) THEN [err |-> "ZeroDivisionError"]
        ELSE [err |-> None, length_px |-> NDiv(conv.value, d)]

\* Mode 2 of DualScaleBar.draw, where e1 and e2 are what
\* _calculate_exact_length returned or raised for the two axes
Dual_draw_fixed(e1, e2, fixed_value, fixed_units) ==
    IF e1.err # None THEN [err |-> e1.err]
    ELSE IF e2.err # None THEN [err |-> e2.err]
    ELSE [err |-> None,
          length_pxs |-> <<e1.length_px, e2.length_px>>,
          values |-> fixed_value,
          units |-> fixed_units]

\* DualScaleBar.draw from "self._fixed_value = values" on, where res is the
\* lengths, values and units of the mode, or the error raised: what draw
\* returns or raises, and the bar after the call
Dual_draw_scale(self, res) ==
    IF res.err # None THEN [ret |-> [err |-> res.err], self |-> self]
    ELSE [ret |-> [err |-> None,
                   drawn |-> TRUE,
                   length_pxs |-> res.length_pxs,
                   values |-> res.values,
                   units |-> res.units,
                   scale_text |->
                       [i \in 1..2 |->
                           create_label(self._dimensions[i], res.values[i],
                                        to_latex(self._dimensions[i], res.units[i]).latex)]],
          self |-> [self EXCEPT !._fixed_value = PyList(res.values),
                                !._units = res.units]]

\* DualScaleBar.draw, up to the rectangles and the texts handed to the
\* canvas: drawn = FALSE is the early return
Dual_draw(self, xlim, ylim) ==
    IF IsZero(self._dx) \/ IsZero(self._dy)
    THEN [ret |-> [err |-> None, drawn |-> FALSE], self |-> self]
    ELSE
    LET fixed_value == self._fixed_value
        fixed_units == IF self._fixed_units = PyNone
                       THEN self._units ELSE self._fixed_units
        dx == NAbs(NSub(xlim[2], xlim[1]))
        dy == NAbs(NSub(ylim[2], ylim[1]))
    IN  Dual_draw_scale(
            self,
            IF self._fixed_value = PyNone
            THEN Dual_calculate_best_length(
                     self, <<NMul(dx, RcLengthFraction), NMul(dy, RcLengthFraction)>>)
            ELSE Dual_draw_fixed(
                     Dual_calculate_exact_length(
                         self._dx, self._dimensions[1], self._units[1],
                         fixed_value.items[1], fixed_units[1]),
                     Dual_calculate_exact_length(
                         self._dy, self._dimensions[2], self._units[2],
                         fixed_value.items[2], fixed_units[2]),
                     fixed_value.items, fixed_units))

----------------------------------------------------------------------------
(* Inputs *)

\* decades of the input grid on either side of 1
MaxExp == 3

\* custom units a caller registers on top of a built-in family
MaxAdded == 1

Mantissas == {1, 2, 9}

GridValues == {E(m, k) : m \in Mantissas, k \in (-MaxExp)..MaxExp}

\* values of the documented cases that are not on the grid
DocValues == {Q(18, 1), Q(120, 1), E(1, 4), E(2, -7)}

PreferredInputs == GridValues \cup DocValues \cup {Zero, Q(-1, 1)}

ConvertInputs == {Q(2, 1), Q(37, 10), Q(-1, 1)}

Families == {SILengthDimension, SILengthReciprocalDimension,
             ImperialLengthDimension, PixelLengthDimension, AngleDimension}

UnitsOf(dim) == Keys(dim._units)

\* a symbol no family registers
UnknownUnits == "parsec"

CustomUnits == {"x", "xx"}

CustomFactors == {One, Q(25, 1), Q(1, 40)}

\* the latexrepr a caller gives with a symbol: none with most, one with "xx"
CustomLatex(units) == IF units = "xx" THEN "X" ELSE None

DxValues == {Zero, One, Q(1, 2), Q(2, 100), Q(-1, 1)}

\* pixel lengths asked for: every ladder value, and values off the ladder
LengthInputs ==
    {_PREFERRED_VALUES[i].num : i \in 1..Len(_PREFERRED_VALUES)}
        \cup {Zero, Q(6, 10), Q(3, 1), Q(12, 1), Q(800, 1), Q(1000, 1), Q(2000, 1)}

Lims == {<<Q(-5, 10), Q(25, 10)>>, <<Zero, Q(10, 1)>>}

\* fixed_value and fixed_units of a bar over dim
FixedConfigs(dim) ==
    {<<PyNone, None>>, <<PyInt(5), None>>,
     <<PyFloat(Q(48, 1)), dim._units[2][1]>>,
     <<PyFloat(Q(48, 1)), dim._units[3][1]>>}

LengthFractionConfigs == {PyNone, PyFloat(Q(1, 2))}

RotationConfigs == {None, "vertical"}

\* the families a bar is configured over
ArtistFamilies == {SILengthDimension, ImperialLengthDimension}

\* what a caller hands to a fraction or alpha setter
FractionInputs ==
    {PyNone, PyFloat(Zero), PyFloat(Q(2, 10)), PyInt(1), PyFloat(Q(11, 10)),
     PyFloat(Q(-1, 2))}

\* what a caller hands over as a location: names, codes, a name unknown
LocationInputs ==
    {PyNone, PyString("upper right"), PyString("upper left"),
     PyString("upper center"), PyString("nowhere"), PyInt(1), PyInt(2), PyInt(9)}

\* what a caller hands to set_dimension: the identifiers, other strings,
\* None, a number, a registry of a family of their own
DimensionInputs ==
    {PyString("si-length"), PyString("si-length-reciprocal"),
     PyString("imperial-length"), PyString("pixel-length"), PyString("angle"),
     PyString("time"), PyString("SI-Length"), PyNone, PyInt(1), TimeDimension}

\* what a caller hands to set_rotation
RotationInputs ==
    {None, "horizontal", "vertical", "horizontal-only", "vertical-only", "h"}

\* what a caller hands to set_units
UnitsInputs == {"m", "km", "ft", "deg", "ms", UnknownUnits}

\* keyword arguments of the constructor calls
ScaleBarKeywords(dim) ==
    [dx : {One, Q(1, 2)},
     units : {dim._base_units, UnknownUnits},
     length_fraction : {PyNone, PyFloat(Q(2, 10)), PyFloat(Zero)},
     width_fraction : {PyNone},
     location : LocationInputs,
     loc : LocationInputs,
     box_alpha : {PyNone},
     fixed_value : {PyNone},
     fixed_units : {None},
     rotation : {None}]

\* the callers that resolve at the same time
Callers == {1, 2}

\* the registries the callers share: a family, or one with a custom unit
SharedRegistries ==
    ArtistFamilies
      \cup {Added(dim, "x", Q(25, 1), None) : dim \in ArtistFamilies}

\* the bars of the callers, as far as the resolutions read them
ResolveBars(dim) ==
    {[_dx |-> dx, _units |-> units] :
        dx \in {One, Q(1, 2)}, units \in {dim._base_units, dim._units[2][1]}}

ResolveUnits(dim) == {dim._base_units, dim._units[3][1], "x", UnknownUnits}

\* the resolutions a caller starts
ResolveCalls(dim) ==
    {Resolving("calculate_preferred", PyNone, [value |-> v, units |-> u]) :
        v \in {Q(2, 1), Q(5, 100), Q(2000, 1)}, u \in ResolveUnits(dim)}
      \cup {Resolving("convert", PyNone,
                      [value |-> Q(2, 1), units |-> u, newunits |-> w]) :
               u \in ResolveUnits(dim), w \in ResolveUnits(dim)}
      \cup {Resolving("to_latex", PyNone, [units |-> u]) : u \in ResolveUnits(dim)}
      \cup {Resolving("is_valid_units", PyNone, [units |-> u]) :
               u \in ResolveUnits(dim)}
      \cup {Resolving("_calculate_best_length", b, [length_px |-> l]) :
               b \in ResolveBars(dim), l \in {Q(6, 10), Q(10, 1), Q(800, 1)}}
      \cup {Resolving("_calculate_exact_length", b,
                      [value |-> PyInt(5), units |-> u]) :
               b \in ResolveBars(dim), u \in ResolveUnits(dim)}

DualDims == {<<SILengthDimension, SILengthDimension>>,
             <<SILengthDimension, ImperialLengthDimension>>,
             <<PixelLengthDimension, AngleDimension>>}

DualUnits(dim) ==
    {dim._base_units, dim._units[2][1], dim._units[Len(dim._units)][1]}

DualDs == {Zero, One, Q(1, 2)}

DualLengths == {Q(6, 10), Q(10, 1), Q(800, 1)}

----------------------------------------------------------------------------
(* The state machine.  dimension is the registry object, bar the ScaleBar  *)
(* that refers to it, dbar a DualScaleBar (with its own two registries),   *)
(* out the call in progress: its name, its arguments and what it returned  *)
(* or raised.                                                              *)

Idle == [op |-> None]

Call(op, args, ret) == [op |-> op, args |-> args, ret |-> ret]

InitDim ==
    /\ dimension \in Families
    /\ bar = PyNone
    /\ dbar = PyNone
    /\ out = Idle

InitScaleBar ==
    /\ dimension \in Families
    /\ \E dx \in DxValues, units \in UnitsOf(dimension),
          length_fraction \in LengthFractionConfigs,
          fixed \in FixedConfigs(dimension), rotation \in RotationConfigs :
          LET new == ScaleBar(dimension, dx, units, length_fraction,
                              fixed[1], fixed[2], rotation)
          IN  /\ fixed[1] # PyNone => length_fraction = PyNone
              /\ new.err = None
              /\ bar = new.bar
    /\ dbar = PyNone
    /\ out = Idle

InitDualScaleBar ==
    /\ dimension = PyNone
    /\ bar = PyNone
    /\ \E dims \in DualDims, dx \in DualDs, dy \in DualDs :
          \E u1 \in DualUnits(dims[1]), u2 \in DualUnits(dims[2]) :
             LET new == DualScaleBar(dims, dx, dy, <<u1, u2>>)
             IN  new.err = None /\ dbar = new.bar
    /\ out = Idle

InitBar == InitScaleBar \/ InitDualScaleBar

CalculatePreferred ==
    /\ out = Idle /\ dimension # PyNone /\ bar = PyNone
    /\ \E value \in PreferredInputs, units \in UnitsOf(dimension) \cup {UnknownUnits} :
          out' = Call("calculate_preferred", [value |-> value, units |-> units],
                      calculate_preferred(dimension, value, units))
    /\ UNCHANGED <<dimension, bar, dbar>>

Convert ==
    /\ out = Idle /\ dimension # PyNone /\ bar = PyNone
    /\ \E value \in ConvertInputs :
          \E units \in UnitsOf(dimension) \cup {UnknownUnits},
             newunits \in UnitsOf(dimension) \cup {UnknownUnits} :
             out' = Call("convert",
                         [value |-> value, units |-> units, newunits |-> newunits],
                         convert(dimension, value, units, newunits))
    /\ UNCHANGED <<dimension, bar, dbar>>

ToLatex ==
    /\ out = Idle /\ dimension # PyNone /\ bar = PyNone
    /\ \E units \in UnitsOf(dimension) \cup {UnknownUnits} :
          out' = Call("to_latex", [units |-> units], to_latex(dimension, units))
    /\ UNCHANGED <<dimension, bar, dbar>>

IsValidUnits ==
    /\ out = Idle /\ dimension # PyNone /\ bar = PyNone
    /\ \E units \in UnitsOf(dimension) \cup CustomUnits \cup {UnknownUnits} :
          out' = Call("is_valid_units", [units |-> units],
                      [err |-> None, value |-> is_valid_units(dimension, units)])
    /\ UNCHANGED <<dimension, bar, dbar>>

\* a symbol already registered may always be tried again; new symbols are
\* registered up to MaxAdded
AddUnits ==
    /\ out = Idle /\ dimension # PyNone /\ bar = PyNone
    /\ \E units \in CustomUnits \cup {dimension._base_units},
          factor \in CustomFactors :
          LET latexrepr == CustomLatex(units)
              r == add_units(dimension, units, factor, latexrepr)
          IN  /\ \/ units \in UnitsOf(dimension)
                 \/ Cardinality(UnitsOf(dimension) \cap CustomUnits) < MaxAdded
              /\ dimension' = r.dim
              /\ out' = Call("add_units",
                             [units |-> units, factor |-> factor,
                              latexrepr |-> latexrepr],
                             [err |-> r.err])
    /\ UNCHANGED <<bar, dbar>>

CalculateBestLength ==
    /\ out = Idle /\ bar # PyNone
    /\ \E length_px \in LengthInputs :
          out' = Call("_calculate_best_length", [length_px |-> length_px],
                      _calculate_best_length(bar, dimension, length_px))
    /\ UNCHANGED <<dimension, bar, dbar>>

CalculateExactLength ==
    /\ out = Idle /\ bar # PyNone
    /\ \E value \in {PyInt(5), PyFloat(Q(48, 1))},
          units \in {dimension._base_units, dimension._units[2][1],
                     dimension._units[3][1], UnknownUnits} :
          out' = Call("_calculate_exact_length", [value |-> value, units |-> units],
                      _calculate_exact_length(bar, dimension, value, units))
    /\ UNCHANGED <<dimension, bar, dbar>>

Draw ==
    /\ out = Idle /\ bar # PyNone
    /\ \E xlim \in Lims, ylim \in Lims :
          out' = Call("draw", [xlim |-> xlim, ylim |-> ylim],
                      draw(bar, dimension, xlim, ylim))
    /\ UNCHANGED <<dimension, bar, dbar>>

DualCalculateBestLength ==
    /\ out = Idle /\ dbar # PyNone
    /\ \E lx \in DualLengths, ly \in DualLengths :
          out' = Call("Dual_calculate_best_length", [length_pxs |-> <<lx, ly>>],
                      Dual_calculate_best_length(dbar, <<lx, ly>>))
    /\ UNCHANGED <<dimension, bar, dbar>>

DualDraw ==
    /\ out = Idle /\ dbar # PyNone
    /\ \E xlim \in Lims, ylim \in Lims :
          LET r == Dual_draw(dbar, xlim, ylim)
          IN  /\ out' = Call("Dual_draw", [xlim |-> xlim, ylim |-> ylim], r.ret)
              /\ dbar' = r.self
    /\ UNCHANGED <<dimension, bar>>

InitArtist ==
    /\ dimension \in ArtistFamilies
    /\ bar = PyNone
    /\ dbar = PyNone
    /\ out = Idle

\* ScaleBar(...): the bar exists when __init__ raised nothing
NewScaleBar ==
    /\ out = Idle /\ bar = PyNone /\ dbar = PyNone
    /\ \E kw \in ScaleBarKeywords(dimension) :
          LET new == ScaleBar_init(dimension, kw)
          IN  /\ out' = Call("ScaleBar", kw, [err |-> new.err])
              /\ bar' = IF new.err = None THEN new.bar ELSE PyNone
    /\ UNCHANGED <<dimension, dbar>>

SetLengthFraction ==
    /\ out = Idle /\ bar # PyNone
    /\ \E fraction \in FractionInputs :
          LET r == set_length_fraction(bar, fraction)
          IN  /\ out' = Call("set_length_fraction", [value |-> fraction],
                             [err |-> r.err])
              /\ bar' = r.self
    /\ UNCHANGED <<dimension, dbar>>

SetWidthFraction ==
    /\ out = Idle /\ bar # PyNone
    /\ \E fraction \in FractionInputs :
          LET r == set_width_fraction(bar, fraction)
          IN  /\ out' = Call("set_width_fraction", [value |-> fraction],
                             [err |-> r.err])
              /\ bar' = r.self
    /\ UNCHANGED <<dimension, dbar>>

SetHeightFraction ==
    /\ out = Idle /\ bar # PyNone
    /\ \E fraction \in FractionInputs :
          LET r == set_height_fraction(bar, fraction)
          IN  /\ out' = Call("set_height_fraction", [value |-> fraction],
                             [err |-> r.err])
              /\ bar' = r.self
    /\ UNCHANGED <<dimension, dbar>>

SetBoxAlpha ==
    /\ out = Idle /\ bar # PyNone
    /\ \E alpha \in FractionInputs :
          LET r == set_box_alpha(bar, alpha)
          IN  /\ out' = Call("set_box_alpha", [value |-> alpha], [err |-> r.err])
              /\ bar' = r.self
    /\ UNCHANGED <<dimension, dbar>>

SetLocation ==
    /\ out = Idle /\ bar # PyNone
    /\ \E loc \in LocationInputs :
          LET r == set_location(bar, loc)
          IN  /\ out' = Call("set_location", [value |-> loc], [err |-> r.err])
              /\ bar' = r.self
    /\ UNCHANGED <<dimension, dbar>>

SetRotation ==
    /\ out = Idle /\ bar # PyNone
    /\ \E rotation \in RotationInputs :
          LET r == set_rotation(bar, rotation)
          IN  /\ out' = Call("set_rotation", [value |-> rotation], [err |-> r.err])
              /\ bar' = r.self
    /\ UNCHANGED <<dimension, dbar>>

SetDimension ==
    /\ out = Idle /\ bar # PyNone
    /\ \E d \in DimensionInputs :
          LET r == set_dimension(dimension, d)
          IN  /\ out' = Call("set_dimension", [value |-> d], [err |-> r.err])
              /\ dimension' = r._dimension
    /\ UNCHANGED <<bar, dbar>>

SetUnits ==
    /\ out = Idle /\ bar # PyNone
    /\ \E units \in UnitsInputs :
          LET r == set_units(bar, dimension, units)
          IN  /\ out' = Call("set_units", [value |-> units], [err |-> r.err])
              /\ bar' = r.self
    /\ UNCHANGED <<dimension, dbar>>

\* the call returns to the caller
Return ==
    /\ out # Idle
    /\ out' = Idle
    /\ UNCHANGED <<dimension, bar, dbar>>

NextDim == CalculatePreferred \/ Convert \/ ToLatex \/ IsValidUnits
              \/ AddUnits \/ Return

NextBar == CalculateBestLength \/ CalculateExactLength \/ Draw
              \/ DualCalculateBestLength \/ DualDraw \/ Return

SpecDim == InitDim /\ [][NextDim]_vars

SpecBar == InitBar /\ [][NextBar]_vars

NextArtist == NewScaleBar \/ SetLengthFraction \/ SetWidthFraction
                 \/ SetHeightFraction \/ SetBoxAlpha \/ SetLocation
                 \/ SetRotation \/ SetDimension \/ SetUnits \/ Return

SpecArtist == InitArtist /\ [][NextArtist]_vars

\* Two callers resolve against one registry; out[t] is the resolution of
\* caller t.  add_units is not called.
InitResolve ==
    /\ dimension \in SharedRegistries
    /\ bar = PyNone
    /\ dbar = PyNone
    /\ out = [t \in Callers |-> Idle]

ResolveCall ==
    \E t \in Callers :
       /\ out[t] = Idle
       /\ \E c \in ResolveCalls(dimension) : out' = [out EXCEPT ![t] = c]
       /\ UNCHANGED <<dimension, bar, dbar>>

ResolveStep ==
    \E t \in Callers :
       /\ out[t] # Idle /\ out[t].pc # "done"
       /\ LET r == resolve_step(dimension, out[t])
          IN  /\ out' = [out EXCEPT ![t] = r.call]
              /\ dimension' = r.dim
       /\ UNCHANGED <<bar, dbar>>

ResolveReturn ==
    \E t \in Callers :
       /\ out[t] # Idle /\ out[t].pc = "done"
       /\ out' = [out EXCEPT ![t] = Idle]
       /\ UNCHANGED <<dimension, bar, dbar>>

NextResolve == ResolveCall \/ ResolveStep \/ ResolveReturn

SpecResolve == InitResolve /\ [][NextResolve]_vars

----------------------------------------------------------------------------
(* Properties *)

Factors(dim) == {dim._units[i][2] : i \in 1..Len(dim._units)}

\* the base-unit value of the arguments of the calculate_preferred call
BaseValue == NMul(out.args.value, Get(dimension._units, out.args.units))

PreferredReturned ==
    /\ out.op = "calculate_preferred"
    /\ out.args.units \in UnitsOf(dimension)

Candidate ==
    calculate_preferred(dimension, NMul(out.args.length_px, bar._dx), bar._units).value

BestLengthReturned ==
    /\ out.op = "_calculate_best_length"
    /\ out.ret.err = None

Ladder == {_PREFERRED_VALUES[i].num : i \in 1..Len(_PREFERRED_VALUES)}

\* v is the largest ladder entry <= c, if there is one
LargestNotAbove(c, v) ==
    (\E p \in Ladder : NLe(p, c)) =>
        /\ v.num \in Ladder
        /\ NLe(v.num, c)
        /\ \A p \in Ladder : NLe(p, c) => NLe(p, v.num)

\* v is the largest ladder entry < c, and the lowest entry if there is none
LargestBelow(c, v) ==
    IF \E p \in Ladder : NLt(p, c)
    THEN /\ v.num \in Ladder
         /\ NLt(v.num, c)
         /\ \A p \in Ladder : NLt(p, c) => NLe(p, v.num)
    ELSE v = _PREFERRED_VALUES[1]

\* C2 as stated: the value returned is the largest ladder entry <= the
\* candidate, so a candidate that is a ladder entry is returned itself.
C2_LargestEntryNotAbove ==
    BestLengthReturned => LargestNotAbove(Candidate, out.ret.value)

\* C2 amended: the value returned is the largest ladder entry strictly below
\* the candidate, and the lowest entry, 1, when no entry is strictly below it;
\* a candidate equal to a ladder entry above 1 gives the next entry down.
C2_LargestEntryBelow ==
    BestLengthReturned => LargestBelow(Candidate, out.ret.value)

\* with dx = 1 m a request of 10 pixels has the candidate 10 m and gives 5 m
C2_Witness ==
    /\ BestLengthReturned
    /\ bar._dx = One /\ bar._units = "m"
    /\ out.args.length_px = Q(10, 1)
    /\ Candidate = Q(10, 1)
    /\ out.ret.value = PyInt(5)

\* C3: the display value returned by _calculate_best_length, of ScaleBar and
\* for each axis of DualScaleBar, is one of 1, 2, 5, 10, 15, 20, 25, 50, 75,
\* 100, 125, 150, 200, 500, 750, whenever the call returns.
C3_ValueOnLadder ==
    LET Allowed == {PyInt(k) : k \in {1, 2, 5, 10, 15, 20, 25, 50, 75, 100,
                                      125, 150, 200, 500, 750}}
    IN  /\ BestLengthReturned => out.ret.value \in Allowed
        /\ (out.op = "Dual_calculate_best_length" /\ out.ret.err = None) =>
               \A i \in 1..2 : out.ret.values[i] \in Allowed

\* a dual bar resolved its two axes to different values in different units
C3_Witness ==
    /\ out.op = "Dual_calculate_best_length" /\ out.ret.err = None
    /\ out.ret.values[1] # out.ret.values[2]
    /\ out.ret.units[1] # out.ret.units[2]

\* C4: when the snap rounds down (the ladder value is not above the
\* candidate), the pixel length returned by _calculate_best_length is not
\* above the pixel length asked for.
C4_NoOvershoot ==
    (BestLengthReturned /\ NLe(out.ret.value.num, Candidate)) =>
        NLe(out.ret.length_px, out.args.length_px)

\* a request that was shrunk across a change of unit
C4_Witness ==
    /\ BestLengthReturned
    /\ NLe(out.ret.value.num, Candidate)
    /\ out.ret.units # bar._units
    /\ NLt(out.ret.length_px, out.args.length_px)

\* C5: with dx = 1 and units m, _calculate_best_length(10) returns value 5 in
\* m and the default formatter prints "5 m"; with dx = 0.5, units m and a
\* requested length of 0.6 (extent 3, default fraction 0.2) the result is the
\* pixel length 0.4, the value 2, the units dm and the text "2 dm".
C5_DocumentedResults ==
    /\ (/\ out.op = "_calculate_best_length"
        /\ dimension.cls = "SILengthDimension"
        /\ bar._dx = One /\ bar._units = "m"
        /\ out.args.length_px = Q(10, 1)) =>
            /\ out.ret = [err |-> None, length_px |-> Q(5, 1),
                          value |-> PyInt(5), units |-> "m"]
            /\ create_label(dimension, out.ret.value, out.ret.units) = "5 m"
    /\ (/\ out.op = "_calculate_best_length"
        /\ dimension.cls = "SILengthDimension"
        /\ bar._dx = Q(1, 2) /\ bar._units = "m"
        /\ out.args.length_px = Q(6, 10)) =>
            out.ret = [err |-> None, length_px |-> Q(4, 10),
                       value |-> PyInt(2), units |-> "dm"]
    /\ (/\ out.op = "draw"
        /\ dimension.cls = "SILengthDimension"
        /\ bar._dx = Q(1, 2) /\ bar._units = "m"
        /\ bar._fixed_value = PyNone /\ bar._length_fraction = PyNone
        /\ out.args.xlim = <<Q(-5, 10), Q(25, 10)>>
        /\ out.args.ylim = <<Q(-5, 10), Q(25, 10)>>) =>
            /\ out.ret.err = None /\ out.ret.drawn
            /\ out.ret.length_px = Q(4, 10)
            /\ out.ret.value = PyInt(2)
            /\ out.ret.units = "dm"
            /\ out.ret.scale_text = "2 dm"

\* the draw of the 3 x 3 image at dx = 0.5 m
C5_Witness ==
    /\ out.op = "draw"
    /\ bar._dx = Q(1, 2) /\ bar._units = "m" /\ bar._fixed_value = PyNone
    /\ out.args.xlim = <<Q(-5, 10), Q(25, 10)>>
    /\ out.ret.err = None
    /\ out.ret.scale_text = "2 dm"

\* C6: when the base-unit value of (v, u) is below every registered factor,
\* calculate_preferred(v, u) returns (v, u) itself.
C6_FallbackUnchanged ==
    (PreferredReturned /\ \A g \in Factors(dimension) : NLt(BaseValue, g)) =>
        out.ret = [err |-> None, value |-> out.args.value, units |-> out.args.units]

\* 0.02 px stays 0.02 px
C6_Witness ==
    /\ PreferredReturned
    /\ dimension.cls = "PixelLengthDimension"
    /\ out.args = [value |-> Q(2, 100), units |-> "px"]
    /\ out.ret = [err |-> None, value |-> Q(2, 100), units |-> "px"]

\* C7: calculate_preferred applied to its own result returns that result.
C7_PreferredIdempotent ==
    (PreferredReturned /\ out.ret.err = None) =>
        calculate_preferred(dimension, out.ret.value, out.ret.units) = out.ret

\* a result in another unit than the argument, resolved again
C7_Witness ==
    /\ PreferredReturned /\ out.ret.err = None
    /\ out.ret.units # out.args.units
    /\ out.ret.value # out.args.value
    /\ calculate_preferred(dimension, out.ret.value, out.ret.units) = out.ret

ConvertReturned ==
    /\ out.op = "convert"
    /\ out.args.units \in UnitsOf(dimension)
    /\ out.args.newunits \in UnitsOf(dimension)

C9_ConvertByFactors ==
    ConvertReturned =>
        /\ out.ret.err = None
        /\ NMul(out.ret.value, Get(dimension._units, out.args.newunits))
              = NMul(out.args.value, Get(dimension._units, out.args.units))
        /\ out.args = [value |-> Q(2, 1), units |-> "cm", newunits |-> "um"]
              => out.ret.value = Q(20000, 1)
        /\ out.args = [value |-> Q(2, 1), units |-> "um", newunits |-> "cm"]
              => out.ret.value = Q(2, 10000)
        /\ out.args = [value |-> Q(2, 1), units |-> "kpx", newunits |-> "px"]
              => out.ret.value = Q(2000, 1)
        /\ out.args = [value |-> Q(2, 1), units |-> "px", newunits |-> "kpx"]
              => out.ret.value = Q(2, 1000)

\* 2 cm is 20000 um
C9_Witness ==
    /\ ConvertReturned
    /\ out.args = [value |-> Q(2, 1), units |-> "cm", newunits |-> "um"]
    /\ out.ret.value = Q(20000, 1)

\* C10: _calculate_exact_length(value, units) is value * factor[units] /
\* factor[source units] / dx, and a draw in fixed mode shows the fixed value
\* and the fixed units (the source units when none are given) as they are,
\* at that pixel length.
C10_FixedModeExact ==
    /\ (out.op = "_calculate_exact_length" /\ out.ret.err = None) =>
           NMul(NMul(out.ret.length_px, bar._dx), Get(dimension._units, bar._units))
              = NMul(out.args.value.num, Get(dimension._units, out.args.units))
    /\ (out.op = "draw" /\ bar._fixed_value # PyNone /\ out.ret.err = None
           /\ out.ret.drawn) =>
           LET units == IF bar._fixed_units = None THEN bar._units
                        ELSE bar._fixed_units
           IN  /\ out.ret.value = bar._fixed_value
               /\ out.ret.units = units
               /\ NMul(NMul(out.ret.length_px, bar._dx),
                       Get(dimension._units, bar._units))
                     = NMul(bar._fixed_value.num, Get(dimension._units, units))
               /\ out.ret.scale_text
                     = create_label(dimension, bar._fixed_value,
                                    Get(dimension._latexrepr, units))

\* the bar of 48.0 in on an image of 0.02 ft per pixel is 200 pixels long
C10_Witness ==
    /\ out.op = "draw"
    /\ dimension.cls = "ImperialLengthDimension"
    /\ bar._dx = Q(2, 100) /\ bar._units = "ft"
    /\ bar._fixed_value = PyFloat(Q(48, 1)) /\ bar._fixed_units = "in"
    /\ out.ret.err = None
    /\ out.ret.length_px = Q(200, 1)
    /\ out.ret.scale_text = "48.0 in"

\* is some unit symbol handed to the call in out not registered?
UnknownUnitPassed ==
    \/ /\ out.op \in {"calculate_preferred", "to_latex"}
       /\ out.args.units \notin UnitsOf(dimension)
    \/ /\ out.op = "convert"
       /\ \/ out.args.units \notin UnitsOf(dimension)
          \/ out.args.newunits \notin UnitsOf(dimension)

\* C11 as stated: convert, to_latex and calculate_preferred raise one and the
\* same kind of error (the kind to_latex raises for an unknown symbol), and
\* return nothing, whenever a unit symbol handed to them is not registered.
C11_SameUnknownUnitError ==
    UnknownUnitPassed =>
        /\ out.ret.err # None
        /\ DOMAIN out.ret = {"err"}
        /\ out.ret.err = to_latex(dimension, UnknownUnits).err

\* is the next state the return of an add_units call?
AddUnitsCalled == out'.op = "add_units"

\* every unit registered now is registered in the next state, with the same
\* factor and the same LaTeX representation
RegisteredKept ==
    \A i \in 1..Len(dimension._units) :
        LET u == dimension._units[i][1]
        IN  /\ Has(dimension'._units, u)
            /\ Get(dimension'._units, u) = dimension._units[i][2]
            /\ Has(dimension'._latexrepr, u)
            /\ Get(dimension'._latexrepr, u) = Get(dimension._latexrepr, u)

\* C12: add_units with a symbol already registered (the base unit included)
\* raises and leaves the factor table and the LaTeX table as they were; no
\* step ever removes a unit or changes its factor or its representation.
C12_DuplicateRejected ==
    [][/\ (AddUnitsCalled /\ out'.args.units \in UnitsOf(dimension)) =>
              (out'.ret.err = "ValueError" /\ dimension' = dimension)
       /\ RegisteredKept]_vars

\* a custom unit registered earlier is added again with another factor, and
\* keeps the factor it had
C12_Witness ==
    /\ out.op = "add_units"
    /\ out.args.units \in CustomUnits
    /\ out.args.factor # One
    /\ out.ret.err = "ValueError"
    /\ Get(dimension._units, out.args.units) # out.args.factor

\* the base unit has factor 1 and no other unit has
BaseUnitAlone ==
    \A i \in 1..Len(dimension._units) :
        (dimension._units[i][2] = One) = (dimension._units[i][1] = dimension._base_units)

\* C13: in every reachable state the base unit maps to factor 1 and no other
\* registered unit does; add_units with a factor equal to 1 raises and
\* leaves the registry as it was.
C13_BaseFactorOne ==
    /\ []BaseUnitAlone
    /\ [][(AddUnitsCalled /\ out'.args.factor = One) =>
              (out'.ret.err = "ValueError" /\ dimension' = dimension)]_vars

\* a new symbol was refused because of its factor 1
C13_Witness ==
    /\ out.op = "add_units"
    /\ out.args.factor = One
    /\ out.args.units \notin UnitsOf(dimension)
    /\ out.ret.err = "ValueError"
    /\ BaseUnitAlone

\* C14: the factor table and the LaTeX table have the same keys, a unit
\* added without latexrepr is represented by its own symbol, and
\* is_valid_units(u) is true exactly when u is a key of both tables.
C14_TablesAgree ==
    /\ Keys(dimension._units) = Keys(dimension._latexrepr)
    /\ (out.op = "add_units" /\ out.ret.err = None /\ out.args.latexrepr = None) =>
           Get(dimension._latexrepr, out.args.units) = out.args.units
    /\ out.op = "is_valid_units" =>
           out.ret.value = (out.args.units \in Keys(dimension._units)
                                               \cap Keys(dimension._latexrepr))

\* a custom unit added without latexrepr is valid, a symbol never added is not
C14_Witness ==
    /\ out.op = "is_valid_units"
    /\ out.args.units \in CustomUnits
    /\ out.ret.value
    /\ Get(dimension._latexrepr, out.args.units) = out.args.units
    /\ ~is_valid_units(dimension, UnknownUnits)

\* C15 as stated: in the SI reciprocal-length dimension
\* calculate_preferred(0.02, "1/m") returns (2.0, "1/cm") and
\* calculate_preferred(0.002, "1/m") returns (2.0, "1/mm").
C15_ReciprocalDocumented ==
    (out.op = "calculate_preferred" /\ dimension = SILengthReciprocalDimension
        /\ out.args.units = "1/m") =>
        /\ out.args.value = E(2, -2) =>
               out.ret = [err |-> None, value |-> Q(2, 1), units |-> "1/cm"]
        /\ out.args.value = E(2, -3) =>
               out.ret = [err |-> None, value |-> Q(2, 1), units |-> "1/mm"]

\* what ScaleBar._calculate_best_length returns for axis i of the
\* DualScaleBar call in out: same pixel length, calibration, dimension, units
SingleAxis(i) ==
    _calculate_best_length([_dx |-> IF i = 1 THEN dbar._dx ELSE dbar._dy,
                            _units |-> dbar._units[i]],
                           dbar._dimensions[i], out.args.length_pxs[i])

SameTriple(single, ret, i) ==
    /\ single.err = None
    /\ single.length_px = ret.length_pxs[i]
    /\ single.value = ret.values[i]
    /\ single.units = ret.units[i]

\* C16 as stated: for each axis, DualScaleBar._calculate_best_length returns
\* the (pixel length, value, units) triple that
\* ScaleBar._calculate_best_length returns for the same pixel length,
\* calibration, dimension and units.
C16_DualSameAsSingle ==
    (out.op = "Dual_calculate_best_length" /\ out.ret.err = None) =>
        \A i \in 1..2 : SameTriple(SingleAxis(i), out.ret, i)

\* C17 as stated: a draw request, of a ScaleBar or of a DualScaleBar,
\* leaves the configuration of the bar (calibration, dimension, units,
\* fixed value, fixed units, length fraction) as it was.
C17_DrawKeepsConfiguration ==
    [][out'.op \in {"draw", "Dual_draw"} =>
          (bar' = bar /\ dbar' = dbar /\ dimension' = dimension)]_vars

\* C18: a draw request of a bar whose calibration is zero (dx of a ScaleBar,
\* dx or dy of a DualScaleBar) returns at once: no error, nothing resolved
\* or drawn, the bar as it was.
C18_ZeroCalibrationNoOp ==
    [][/\ (out'.op = "draw" /\ IsZero(bar._dx)) =>
              /\ out'.ret = [err |-> None, drawn |-> FALSE]
              /\ bar' = bar /\ dimension' = dimension
       /\ (out'.op = "Dual_draw" /\ (IsZero(dbar._dx) \/ IsZero(dbar._dy))) =>
              /\ out'.ret = [err |-> None, drawn |-> FALSE]
              /\ dbar' = dbar]_vars

\* a dual bar whose dy alone is zero was asked to draw and is still in auto
\* mode
C18_Witness ==
    /\ out.op = "Dual_draw"
    /\ IsZero(dbar._dy) /\ ~IsZero(dbar._dx)
    /\ out.ret = [err |-> None, drawn |-> FALSE]
    /\ dbar._fixed_value = PyNone

\* the range of a length or width fraction: None, or in (0, 1]
FractionOK(v) == v = PyNone \/ (NLt(Zero, v.num) /\ NLe(v.num, One))

\* the range of the box alpha: None, or in [0, 1]
AlphaOK(v) == v = PyNone \/ (NLe(Zero, v.num) /\ NLe(v.num, One))

\* the getter returns the value v handed to the setter
SameValue(got, v) ==
    IF v = PyNone THEN got = PyNone ELSE got # PyNone /\ got.num = v.num

\* the setter call returning in the next state accepted v when ok, and
\* rejected it otherwise; before and after are what the getter returns
SetterOutcome(ok, before, after, v) ==
    IF ok THEN out'.ret.err = None /\ SameValue(after, v)
    ELSE out'.ret.err = "ValueError" /\ after = before

\* C19: set_length_fraction, set_width_fraction and set_height_fraction
\* accept None or a value in (0, 1], set_box_alpha accepts None or a value in
\* [0, 1]; a value out of range raises ValueError and the getter returns
\* what it returned before; after an accepted call it returns the value set.
C19_RangeValidatedSetters ==
    [][/\ out'.op = "set_length_fraction" =>
              SetterOutcome(FractionOK(out'.args.value), get_length_fraction(bar),
                            get_length_fraction(bar'), out'.args.value)
       /\ out'.op = "set_width_fraction" =>
              SetterOutcome(FractionOK(out'.args.value), get_width_fraction(bar),
                            get_width_fraction(bar'), out'.args.value)
       /\ out'.op = "set_height_fraction" =>
              SetterOutcome(FractionOK(out'.args.value), get_height_fraction(bar),
                            get_height_fraction(bar'), out'.args.value)
       /\ out'.op = "set_box_alpha" =>
              SetterOutcome(AlphaOK(out'.args.value), get_box_alpha(bar),
                            get_box_alpha(bar'), out'.args.value)]_vars

\* set_height_fraction(1.1) was rejected and the width fraction set earlier,
\* 0.2, is still there, next to a box alpha of 0.0
C19_Witness ==
    /\ out.op = "set_height_fraction"
    /\ out.args.value = PyFloat(Q(11, 10))
    /\ out.ret.err = "ValueError"
    /\ get_height_fraction(bar) = PyFloat(Q(2, 10))
    /\ get_box_alpha(bar) = PyFloat(Zero)

\* a constructor argument that denotes a location: a known name or a code
Denotes(v) == v # PyNone /\ (v.ty = "str" => Has(_LOCATIONS, v.str))

\* the location code it denotes
LocationCode(v) == IF v.ty = "str" THEN PyInt(Get(_LOCATIONS, v.str)) ELSE v

\* C20: ScaleBar(...) with both loc and location given raises ValueError
\* whenever the two denote different location codes, and no bar is created.
C20_LocationConflict ==
    (/\ out.op = "ScaleBar"
     /\ Denotes(out.args.loc) /\ Denotes(out.args.location)
     /\ LocationCode(out.args.loc) # LocationCode(out.args.location)) =>
        (out.ret.err = "ValueError" /\ bar = PyNone)

\* loc = "upper right" with location = 2, all other arguments valid
C20_Witness ==
    /\ out.op = "ScaleBar"
    /\ out.args.loc = PyString("upper right")
    /\ out.args.location = PyInt(2)
    /\ is_valid_units(dimension, out.args.units)
    /\ ~FractionRejected(out.args.length_fraction)
    /\ out.ret.err = "ValueError"
    /\ bar = PyNone

\* the constructor call gives exactly one of loc and location, a known
\* location name or a code, and every other argument is valid
OneAliasGiven ==
    /\ out.op = "ScaleBar"
    /\ \/ out.args.loc = PyNone /\ Denotes(out.args.location)
       \/ out.args.location = PyNone /\ Denotes(out.args.loc)
    /\ is_valid_units(dimension, out.args.units)
    /\ ~FractionRejected(out.args.length_fraction)

\* the one alias given
AliasGiven == IF out.args.loc = PyNone THEN out.args.location ELSE out.args.loc

\* C21: ScaleBar(...) with only one of loc and location given does not raise
\* and the bar's location (which loc reads too) is the code of the name given;
\* set_location with a known name stores its integer code.
C21_OneAliasSucceeds ==
    /\ OneAliasGiven =>
          (/\ out.ret.err = None
           /\ bar # PyNone
           /\ get_location(bar) = LocationCode(AliasGiven))
    /\ (out.op = "set_location" /\ Denotes(out.args.value)) =>
          (out.ret.err = None /\ get_location(bar) = LocationCode(out.args.value))

\* the family an identifier of set_dimension stands for
FamilyNamed(id) ==
    CHOOSE f \in Families :
        f.cls = CASE id = "si-length" -> "SILengthDimension"
                  [] id = "si-length-reciprocal" -> "SILengthReciprocalDimension"
                  [] id = "imperial-length" -> "ImperialLengthDimension"
                  [] id = "pixel-length" -> "PixelLengthDimension"
                  [] id = "angle" -> "AngleDimension"

DimensionIdentifiers ==
    {"si-length", "si-length-reciprocal", "imperial-length", "pixel-length",
     "angle"}

\* C22: set_dimension accepts exactly the five family identifiers (the bar's
\* dimension becomes a new registry of that family) and _Dimension instances
\* (stored as given); any other string, None or number raises ValueError and
\* the bar's dimension stays the one it was.
C22_SetDimensionAccepts ==
    [][(out = Idle /\ out'.op = "set_dimension") =>
          LET a == out'.args.value
          IN  IF IsDimension(a)
              THEN out'.ret.err = None /\ dimension' = a
              ELSE IF a # PyNone /\ a.ty = "str" /\ a.str \in DimensionIdentifiers
              THEN out'.ret.err = None /\ dimension' = FamilyNamed(a.str)
              ELSE out'.ret.err = "ValueError" /\ dimension' = dimension]_vars

\* set_dimension("time") rejected on a bar whose dimension was set to angle
C22_Witness ==
    /\ out.op = "set_dimension"
    /\ out.args.value = PyString("time")
    /\ out.ret.err = "ValueError"
    /\ dimension = AngleDimension

\* a ScaleBar.draw step in fixed mode that drew
FixedDrawStep ==
    /\ out = Idle /\ out'.op = "draw"
    /\ bar._fixed_value # PyNone
    /\ out'.ret.err = None /\ out'.ret.drawn

\* a DualScaleBar.draw step in fixed mode that drew
DualFixedDrawStep ==
    /\ out = Idle /\ out'.op = "Dual_draw"
    /\ dbar._fixed_value # PyNone
    /\ out'.ret.err = None /\ out'.ret.drawn

C23_DualWitness ==
    /\ out.op = "Dual_draw"
    /\ dbar._fixed_units = PyNone
    /\ out.ret.err = None /\ out.ret.drawn
    /\ out.ret.units = dbar._units
    /\ dbar._dx = One /\ dbar._dy = One
    /\ out.ret.values = <<PyInt(5), PyInt(5)>>
    /\ out.ret.length_pxs = <<Q(5, 1), Q(5, 1)>>

\* what the resolution c returns when it runs alone against dim
Alone(dim, c) ==
    CASE c.op = "calculate_preferred" ->
           calculate_preferred(dim, c.args.value, c.args.units)
      [] c.op = "convert" ->
           convert(dim, c.args.value, c.args.units, c.args.newunits)
      [] c.op = "to_latex" -> to_latex(dim, c.args.units)
      [] c.op = "is_valid_units" ->
           [err |-> None, value |-> is_valid_units(dim, c.args.units)]
      [] c.op = "_calculate_best_length" ->
           _calculate_best_length(c.self, dim, c.args.length_px)
      [] c.op = "_calculate_exact_length" ->
           _calculate_exact_length(c.self, dim, c.args.value, c.args.units)

\* C24: no step of calculate_preferred, convert, to_latex, is_valid_units,
\* _calculate_best_length or _calculate_exact_length changes the registry,
\* and however the steps of two callers' resolutions interleave, each
\* resolution returns what it returns when run alone.
C24_ResolutionsReadOnly ==
    /\ [](\A t \in Callers :
            (out[t] # Idle /\ out[t].pc = "done") =>
                out[t].ret = Alone(dimension, out[t]))
    /\ [][dimension' = dimension]_vars

\* caller 1 got "5 dm" for 0.6 m while caller 2 was between the two reads of
\* a calculate_preferred
C24_Witness ==
    /\ out[1] # Idle /\ out[2] # Idle
    /\ out[1].op = "_calculate_best_length" /\ out[1].pc = "done"
    /\ out[1].ret.err = None
    /\ out[1].ret.value = PyInt(5) /\ out[1].ret.units = "dm"
    /\ out[2].op = "calculate_preferred" /\ out[2].pc = "second"

\* C25: set_rotation accepts "horizontal", "vertical", "horizontal-only" and
\* "vertical-only", get_rotation then returning the value set; any other
\* string raises ValueError and the rotation stays as it was; a bar just
\* constructed has rotation None.
C25_RotationsAccepted ==
    /\ []((out.op = "ScaleBar" /\ out.ret.err = None) => get_rotation(bar) = None)
    /\ [][(out = Idle /\ out'.op = "set_rotation" /\ out'.args.value # None) =>
             IF out'.args.value \in {"horizontal", "vertical", "horizontal-only",
                                     "vertical-only"}
             THEN /\ out'.ret.err = None
                  /\ get_rotation(bar') = out'.args.value
             ELSE /\ out'.ret.err = "ValueError"
                  /\ get_rotation(bar') = get_rotation(bar)]_vars

\* a _calculate_best_length call for a positive length on a bar of positive
\* dx that returned
PositiveBestLength ==
    /\ out.op = "_calculate_best_length"
    /\ NLt(Zero, out.args.length_px)
    /\ NLt(Zero, bar._dx)
    /\ out.ret.err = None

\* C26: when _calculate_best_length(length_px), for length_px > 0 and dx > 0,
\* returns (L, value, units), _calculate_exact_length(value, units) is L.
C26_AutoAgreesWithFixed ==
    PositiveBestLength =>
        _calculate_exact_length(bar, dimension, out.ret.value, out.ret.units)
           = [err |-> None, length_px |-> out.ret.length_px]

\* 0.6 pixels of 1 m: "5 dm" on 0.5 pixels, as 5 dm are in fixed mode
C26_Witness ==
    /\ PositiveBestLength
    /\ bar._units = "m" /\ bar._dx = One
    /\ out.args.length_px = Q(6, 10)
    /\ out.ret.value = PyInt(5) /\ out.ret.units = "dm"
    /\ out.ret.length_px = Q(5, 10)
    /\ _calculate_exact_length(bar, dimension, PyInt(5), "dm").length_px = Q(5, 10)

\* C27: from its construction on, through every set_dimension and set_units
\* call, accepted or rejected, the bar's units are valid units of the bar's
\* dimension; a rejected set_units raises ValueError and keeps the units.
C27_UnitsValidForDimension ==
    /\ [](bar # PyNone => is_valid_units(dimension, get_units(bar)))
    /\ [][(out = Idle /\ out'.op = "set_units" /\ out'.ret.err # None) =>
             (out'.ret.err = "ValueError" /\ get_units(bar') = get_units(bar))]_vars

\* the requested length of the _calculate_best_length call in base units
BaseLength ==
    NMul(NMul(out.args.length_px, bar._dx), Get(dimension._units, bar._units))

C29_BestLengthTotal ==
    (/\ out.op = "_calculate_best_length"
     /\ NLe(Zero, out.args.length_px)
     /\ ~IsZero(bar._dx)
     /\ is_valid_units(dimension, bar._units)) =>
        (/\ out.ret.err = None
         /\ out.ret.value.num \in Ladder
         /\ NLt(Zero, out.ret.value.num))

\* the length a, in base units, is at least the smallest registered factor
AtLeastSmallestFactor(a) ==
    \E g \in Factors(dimension) :
        NLe(g, NMul(NMul(a, bar._dx), Get(dimension._units, bar._units)))

\* a is the length next below b among the lengths asked for
NextBelow(a, b) ==
    /\ NLt(a, b)
    /\ ~\E c \in LengthInputs : NLt(a, c) /\ NLt(c, b)

\* C30: on a bar of dx > 0, for requested lengths 0 < a <= b that are both, in
\* base units, at least the smallest registered factor, the pixel length
\* _calculate_best_length returns for a is not above the one it returns for
\* b, across changes of unit too.  Each length is compared with the one next
\* below it: the lengths between two that qualify qualify too, so the order
\* of any two follows.
C30_BestLengthMonotonic ==
    (/\ BestLengthReturned
     /\ NLt(Zero, bar._dx)
     /\ AtLeastSmallestFactor(out.args.length_px)) =>
        \A a \in LengthInputs :
            (/\ NLt(Zero, a) /\ NextBelow(a, out.args.length_px)
             /\ AtLeastSmallestFactor(a)) =>
                NLe(_calculate_best_length(bar, dimension, a).length_px,
                    out.ret.length_px)

\* 800 pixels of 1 m give 750 m on 750 pixels, 1000 pixels give 1 km on 1000
C30_Witness ==
    /\ BestLengthReturned
    /\ bar._dx = One /\ bar._units = "m"
    /\ out.args.length_px = Q(1000, 1)
    /\ out.ret.value = PyInt(1) /\ out.ret.units = "km"
    /\ out.ret.length_px = Q(1000, 1)
    /\ _calculate_best_length(bar, dimension, Q(800, 1))
          = [err |-> None, length_px |-> Q(750, 1), value |-> PyInt(750),
             units |-> "m"]

====
